---- MODULE Spec2Model ----
(***************************************************************************)
(* Model of the Special Items page (SpecialItemsPage): the draft/original  *)
(* maps of special days, the changedIds diff, toggleDay, saveChanges with  *)
(* its Promise.all of per-product updates, and the useQuery fetch whose    *)
(* result reseeds both maps.                                               *)
(***************************************************************************)
EXTENDS Integers, Sequences, FiniteSets, TLC

VARIABLES
    server,      \* backend: product id -> raw specialDays (partial map)
    fetch,       \* useQuery: "idle", or "requested" while getProducts is running
    items,       \* the loaded collection: product id -> raw specialDays
    draft,       \* draftSpecialDays
    original,    \* originalSpecialDays
    saving,      \* the saving flag
    saves,       \* every saveChanges run that passed the early return
    dispatches,  \* every productsAPI.updateProduct call of those runs
    toasts,      \* every toast.success / toast.error call
    last,        \* history: the last operation of the page
    nToggles,    \* number of toggleDay calls so far
    nFocus,      \* number of background refetches so far
    nServer,     \* number of products removed by other pages so far
    retry,       \* history: failed dispatches of an id changed at that moment,
                 \* with no toggle of the id, no reseed and no saveChanges
                 \* call since they failed
    touched,     \* history: the ids toggled since the last seed and since the
                 \* start of the last save that sent them and succeeded
    search,      \* the text of the search box of the Special Items page
    dialogOpen,     \* ProductDialog: the open prop
    galleryImages,  \* ProductDialog: the ids of the images of the gallery
    readers,        \* ProductDialog: number of FileReaders still reading
    imageToasts,    \* ProductDialog: toast.error calls of handleAddProductImages
    nextImageId,    \* ProductDialog: the next id generateImageId returns
    nSelections,    \* number of file selections so far
    nRemovals,      \* number of images removed so far
    page,           \* OrdersPage: the page state
    status,         \* OrdersPage: the status filter ("" is no filter)
    searchTerm,     \* OrdersPage: the text of the client-side search box
    pages,          \* OrdersPage: pages of the data useQuery returns
    ordersCache,    \* the query cache: query key -> pages of its last answer
    ordersRequests, \* the query keys whose getOrders call is running
    ordersTotal,    \* backend: status filter -> number of orders it matches
    ordersFetched,  \* history: the query keys the last event of the page
                    \* made useQuery fetch
    nDeletes,       \* number of orders deleted so far
    value,          \* useDebouncedValue: the value argument of the last render
    debounced,      \* useDebouncedValue: the debounced state
    timers,         \* the setTimeout timers pending, with the time left of each
    sinceChange,    \* history: the time since value last changed, up to delay
    emitted,        \* history: the values debounced has changed to
    nInputs         \* number of changes of value so far

vars == <<server, fetch, items, draft, original, saving, saves, dispatches,
          toasts, last, nToggles, nFocus, nServer, retry, touched, search,
          dialogOpen, galleryImages, readers, imageToasts, nextImageId,
          nSelections, nRemovals,
          page, status, searchTerm, pages, ordersCache, ordersRequests,
          ordersTotal, ordersFetched, nDeletes,
          value, debounced, timers, sinceChange, emitted, nInputs>>

\* The state of the Special Items page.
specialVars == <<server, fetch, items, draft, original, saving, saves, dispatches,
                 toasts, last, nToggles, nFocus, nServer, retry, touched, search>>

\* The state of the product dialog.
dialogVars == <<dialogOpen, galleryImages, readers, imageToasts, nextImageId,
                nSelections, nRemovals>>

\* The state of the orders page.
ordersVars == <<page, status, searchTerm, pages, ordersCache, ordersRequests,
                ordersTotal, ordersFetched, nDeletes>>

\* The state of useDebouncedValue.
debounceVars == <<value, debounced, timers, sinceChange, emitted, nInputs>>

\* The state of the rest of the dashboard, seen from the Special Items page.
elsewhere == <<dialogVars, ordersVars, debounceVars>>

\* The state of the rest of the dashboard, seen from the product dialog.
besideDialog == <<specialVars, ordersVars, debounceVars>>

\* The state of the rest of the dashboard, seen from the orders page.
besideOrders == <<specialVars, dialogVars, debounceVars>>

\* The state of the rest of the dashboard, seen from useDebouncedValue.
besideDebounce == <<specialVars, dialogVars, ordersVars>>

----------------------------------------------------------------------------
(* Bounds of the model. *)

NumIds == 3
MaxToggles == 2
MaxSaves == 2
MaxFocus == 1
MaxServer == 1
NumToggleDays == 2
MaxTogglesResave == 3
NumRetryIds == 2
MaxSelections == 3
MaxFiles == 2
MaxRemovals == 1
MaxDeletes == 1
OrdersAtStart == 21
PendingAtStart == 5
MaxInputs == 4
TickMs == 200

Ids == 1..NumIds

----------------------------------------------------------------------------
(* Day tokens. *)

dayOptions == <<"mon", "tue", "wed", "thu", "fri">>

allowedDayValues == {dayOptions[i] : i \in 1..Len(dayOptions)}

\* The days the model's user clicks: the first NumToggleDays day buttons.
ToggleDays == {dayOptions[i] : i \in 1..(IF NumToggleDays < Len(dayOptions)
                                        THEN NumToggleDays ELSE Len(dayOptions))}

\* Code-unit order of the tokens that occur, as Array.prototype.sort uses it.
TokenOrder == <<"fri", "mon", "sat", "thu", "tue", "wed">>

Rank(t) == CHOOSE i \in 1..Len(TokenOrder) : TokenOrder[i] = t

\* A raw specialDays field of a fetched product: absent, or a string array.
Absent == [has |-> FALSE, days |-> <<>>]
Raw(s) == [has |-> TRUE, days |-> s]

\* The raw values the backend holds when the page is opened: no field, one
\* day, a day twice, and two days around a token that is no day.
RawValues == {Absent, Raw(<<"mon">>), Raw(<<"mon", "mon">>), Raw(<<"tue", "sat", "mon">>)}

\* The raw values product i may start with.
RawChoice(i) ==
    CASE i % 3 = 1 -> {Raw(<<"mon">>), Raw(<<"mon", "mon">>)}
      [] i % 3 = 2 -> {Absent}
      [] OTHER -> {Raw(<<"tue", "sat", "mon">>)}

EmptyMap == [i \in {} |-> <<>>]

----------------------------------------------------------------------------
(* Array helpers. *)

Includes(s, x) == \E i \in 1..Len(s) : s[i] = x

ToSet(s) == {s[i] : i \in 1..Len(s)}

RECURSIVE Insert(_, _)
Insert(s, x) ==
    IF s = <<>> THEN <<x>>
    ELSE IF Rank(x) < Rank(Head(s)) THEN <<x>> \o s
    ELSE <<Head(s)>> \o Insert(Tail(s), x)

RECURSIVE Sorted(_)
Sorted(s) == IF s = <<>> THEN <<>> ELSE Insert(Sorted(Tail(s)), Head(s))

\* a ?? []
OrEmpty(m, id) == IF id \in DOMAIN m THEN m[id] ELSE <<>>

\* Variant: the arrays are compared in place, without sorting copies.
arraysEqualInPlace(a, b) ==
    /\ Len(a) = Len(b)
    /\ \A i \in 1..Len(a) : a[i] = b[i]

arraysEqual(a, b) ==
    LET aSorted == Sorted(a)
        bSorted == Sorted(b)
    IN  /\ Len(aSorted) = Len(bSorted)
        /\ \A i \in 1..Len(aSorted) : aSorted[i] = bSorted[i]

----------------------------------------------------------------------------
(* The seed effect. *)

\* Variant: the fetched days are taken as they come.
validDaysUnfiltered(raw) == IF raw.has THEN raw.days ELSE <<>>

validDays(raw) ==
    SelectSeq(IF raw.has THEN raw.days ELSE <<>>, LAMBDA day : day \in allowedDayValues)

SeedMap(its) == [id \in DOMAIN its |-> validDays(its[id])]

\* Variant: the draft is seeded with the unfiltered days.
SeedEffectRawDraft(its) ==
    [draft |-> [id \in DOMAIN its |-> IF its[id].has THEN its[id].days ELSE <<>>],
     original |-> SeedMap(its)]

\* Variant: the original is seeded with the unfiltered days.
SeedEffectRawOriginal(its) ==
    [draft |-> SeedMap(its),
     original |-> [id \in DOMAIN its |-> IF its[id].has THEN its[id].days ELSE <<>>]]

\* setDraftSpecialDays(map); setOriginalSpecialDays(map)
SeedEffect(its) == [draft |-> SeedMap(its), original |-> SeedMap(its)]

----------------------------------------------------------------------------
(* Derived values of a render. *)

ChangedIdsOf(its, orig, dr) ==
    {id \in DOMAIN its : ~arraysEqual(OrEmpty(orig, id), OrEmpty(dr, id))}

\* Strings are sequences of characters. item.name of each product.
Name(id) ==
    CASE id % 3 = 1 -> <<"P", "i", "e">>
      [] id % 3 = 2 -> <<"C", "a", "k", "e">>
      [] OTHER -> <<"P", "i", "z", "z", "a">>

\* The texts typed into the search box.
SearchTerms ==
    {<<>>, <<" ">>, <<"p", "i">>, <<" ", "K", "E", " ">>, <<"x">>}

\* String.prototype.toLowerCase on the characters that occur.
LowerChar(c) ==
    CASE c = "P" -> "p" [] c = "C" -> "c" [] c = "K" -> "k" [] c = "E" -> "e"
      [] OTHER -> c

toLowerCase(s) == [i \in 1..Len(s) |-> LowerChar(s[i])]

\* String.prototype.trim.
RECURSIVE trim(_)
trim(s) ==
    IF s = <<>> THEN s
    ELSE IF Head(s) = " " THEN trim(Tail(s))
    ELSE IF s[Len(s)] = " " THEN trim(SubSeq(s, 1, Len(s) - 1))
    ELSE s

\* String.prototype.includes.
includes(s, term) ==
    \E i \in 0..(Len(s) - Len(term)) : SubSeq(s, i + 1, i + Len(term)) = term

\* The ids of filteredItems: the rows of the table.
filteredItems ==
    LET term == toLowerCase(trim(search))
    IN  IF term = <<>> THEN DOMAIN items
        ELSE {id \in DOMAIN items : includes(toLowerCase(Name(id)), term)}

\* Variant: the changed ids are computed over the rows of the table.
changedIdsOfRows ==
    {id \in filteredItems : ~arraysEqual(OrEmpty(original, id), OrEmpty(draft, id))}

changedIds == ChangedIdsOf(items, original, draft)

SaveDisabled == changedIds = {} \/ saving

----------------------------------------------------------------------------
(* History record of the last operation. *)

LastRec(op, id, day, before, wasDirty, n, save) ==
    [op |-> op, id |-> id, day |-> day, before |-> before,
     wasDirty |-> wasDirty, n |-> n, save |-> save]

LastOp(op) == LastRec(op, 0, "", <<>>, FALSE, 0, 0)

----------------------------------------------------------------------------
(* Initial state: the component has mounted, useQuery has issued the first  *)
(* fetch, and the seed effect has run on the empty item list.               *)

\* The delay of useDebouncedValue, in milliseconds.
delay == 400

\* The texts of the search box the debounced value follows.
InputValues == {"", "c", "ca"}

\* The values of the status filter of the orders page ("" is no filter) and
\* the texts typed into its search box.
Statuses == {"", "Pending"}
OrderSearchTerms == {"", "ann"}

Init ==
    /\ server \in {s \in [Ids -> RawValues] : \A i \in Ids : s[i] \in RawChoice(i)}
    /\ fetch = "requested"
    /\ items = EmptyMap
    /\ draft = SeedEffect(EmptyMap).draft
    /\ original = SeedEffect(EmptyMap).original
    /\ saving = FALSE
    /\ saves = <<>>
    /\ dispatches = <<>>
    /\ toasts = <<>>
    /\ last = LastOp("init")
    /\ nToggles = 0
    /\ nFocus = 0
    /\ nServer = 0
    /\ retry = {}
    /\ touched = {}
    /\ search = <<>>
    /\ dialogOpen = FALSE
    /\ galleryImages = <<>>
    /\ readers = 0
    /\ imageToasts = <<>>
    /\ nextImageId = 1
    /\ nSelections = 0
    /\ nRemovals = 0
    /\ page = 1
    /\ status = ""
    /\ searchTerm = ""
    /\ pages = 1
    /\ ordersCache = <<>>
    /\ ordersRequests = {[page |-> 1, status |-> ""]}
    /\ ordersTotal = [s \in Statuses |-> IF s = "" THEN OrdersAtStart
                                                  ELSE PendingAtStart]
    /\ ordersFetched = {[page |-> 1, status |-> ""]}
    /\ nDeletes = 0
    /\ value = ""
    /\ debounced = ""
    /\ timers = {[id |-> 0, value |-> "", left |-> delay]}
    /\ sinceChange = 0
    /\ emitted = <<>>
    /\ nInputs = 0

----------------------------------------------------------------------------
(* The backend and the query. *)

\* Another page of the dashboard deletes a product.
ServerRemove(id) ==
    /\ nServer < MaxServer
    /\ id \in DOMAIN server
    /\ server' = [j \in (DOMAIN server) \ {id} |-> server[j]]
    /\ nServer' = nServer + 1
    /\ UNCHANGED <<search, elsewhere>>
    /\ UNCHANGED <<fetch, items, draft, original, saving, saves, dispatches,
                   toasts, last, nToggles, nFocus, retry, touched>>

\* A background refetch of the query (none is started while one is running).
RefetchOnFocus ==
    /\ nFocus < MaxFocus
    /\ fetch = "idle"
    /\ fetch' = "requested"
    /\ nFocus' = nFocus + 1
    /\ UNCHANGED <<search, elsewhere>>
    /\ UNCHANGED <<server, items, draft, original, saving, saves, dispatches,
                   toasts, last, nToggles, nServer, retry, touched>>

\* The backend answers getProducts with what it holds: items changes and the
\* seed effect replaces both maps.
FetchReturnSeed ==
    /\ fetch = "requested"
    /\ items' = server
    /\ draft' = SeedEffect(server).draft
    /\ original' = SeedEffect(server).original
    /\ fetch' = "idle"
    /\ last' = LastRec("seed", 0, "", <<>>, FALSE,
                       IF last.op = "seed" /\ server = items THEN last.n + 1 ELSE 1, 0)
    /\ retry' = {}
    /\ touched' = {}
    /\ UNCHANGED <<search, elsewhere>>
    /\ UNCHANGED <<server, saving, saves, dispatches, toasts, nToggles, nFocus,
                   nServer>>

\* The response arrives with data equal to the data already held: the query
\* keeps the identity of items and the seed effect does not run.
FetchReturnSame ==
    /\ fetch = "requested"
    /\ server = items
    /\ fetch' = "idle"
    /\ UNCHANGED <<search, elsewhere>>
    /\ UNCHANGED <<server, items, draft, original, saving, saves, dispatches,
                   toasts, last, nToggles, nFocus, nServer, retry, touched>>

----------------------------------------------------------------------------
(* toggleDay. *)

\* Variant: the day is appended whether or not it is present.
ToggleArrayAppendOnly(existing, day) == Append(existing, day)

ToggleArray(existing, day) ==
    IF Includes(existing, day)
    THEN SelectSeq(existing, LAMBDA d : d # day)
    ELSE Append(existing, day)

\* Variant: the new map is not spread from the previous one.
ToggleMapNoSpread(prev, itemId, day) ==
    [j \in {itemId} |-> ToggleArray(OrEmpty(prev, itemId), day)]

ToggleMap(prev, itemId, day) ==
    LET next == ToggleArray(OrEmpty(prev, itemId), day)
    IN  [j \in (DOMAIN prev) \cup {itemId} |-> IF j = itemId THEN next ELSE prev[j]]

\* A click on a day button of a displayed row, the max-th click at most.
Click(itemId, day, max) ==
    /\ nToggles < max
    /\ itemId \in filteredItems
    /\ draft' = ToggleMap(draft, itemId, day)
    /\ nToggles' = nToggles + 1
    /\ last' = IF last.op = "toggle" /\ last.id = itemId /\ last.day = day /\ last.n = 1
               THEN [last EXCEPT !.n = 2]
               ELSE LastRec("toggle", itemId, day, OrEmpty(draft, itemId),
                            itemId \in changedIds, 1, 0)
    /\ retry' = {k \in retry : dispatches[k].id # itemId}
    /\ touched' = touched \cup {itemId}
    /\ UNCHANGED <<search, elsewhere>>
    /\ UNCHANGED <<server, fetch, items, original, saving, saves, dispatches,
                   toasts, nFocus, nServer>>

toggleDay(itemId, day) == Click(itemId, day, MaxToggles)

\* toggleDay called for an id that has no entry in the draft: no row of the
\* table makes this call, it is the function called on its own.
toggleDayDirect(itemId, day) ==
    /\ nToggles < MaxToggles
    /\ itemId \notin DOMAIN draft
    /\ draft' = ToggleMap(draft, itemId, day)
    /\ nToggles' = nToggles + 1
    /\ last' = LastRec("toggleDirect", itemId, day, <<>>, FALSE, 1, 0)
    /\ retry' = {k \in retry : dispatches[k].id # itemId}
    /\ touched' = touched \cup {itemId}
    /\ UNCHANGED <<search, elsewhere>>
    /\ UNCHANGED <<server, fetch, items, original, saving, saves, dispatches,
                   toasts, nFocus, nServer>>

----------------------------------------------------------------------------
(* saveChanges. *)

\* Variant: no early return.
EarlyReturnNever(ids) == FALSE

\* if (!changedIds.length) return
EarlyReturn(ids) == ids = {}

\* The ids of a set in the order of the item list (ascending id).
RECURSIVE IdSeq(_)
IdSeq(S) ==
    IF S = {} THEN <<>>
    ELSE LET m == CHOOSE x \in S : \A y \in S : x <= y
         IN  <<m>> \o IdSeq(S \ {m})

\* Variant: one call per entry of the draft, changed or not.
NewDispatchesAllItems(s, ids, dr) ==
    LET order == IdSeq(DOMAIN dr)
    IN  [i \in 1..Len(order) |->
            [save |-> s, id |-> order[i], value |-> OrEmpty(dr, order[i]),
             status |-> "pending"]]

\* changedIds.map(async (id) => ... updateProduct(id, formData)): one call per
\* changed id, each carrying the specialDays of the draft of this render.
NewDispatches(s, ids, dr) ==
    LET order == IdSeq(ids)
    IN  [i \in 1..Len(order) |->
            [save |-> s, id |-> order[i], value |-> OrEmpty(dr, order[i]),
             status |-> "pending"]]

\* The state of the Promise.all of save s.
PromiseAll(s, disp) ==
    IF \E k \in 1..Len(disp) : disp[k].save = s /\ disp[k].status = "fail"
    THEN "rejected"
    ELSE IF \A k \in 1..Len(disp) : disp[k].save = s => disp[k].status = "ok"
         THEN "fulfilled"
         ELSE "pending"

\* Variant: setOriginalSpecialDays sits in the finally block.
CompletionReconcileInFinally(st) ==
    IF st = "fulfilled"
    THEN [toasts |-> <<"success">>, reconcile |-> TRUE, refetch |-> TRUE,
          saving |-> FALSE, returned |-> "resolved"]
    ELSE [toasts |-> <<"error">>, reconcile |-> TRUE, refetch |-> FALSE,
          saving |-> FALSE, returned |-> "resolved"]

\* Variant: refetch() sits in the finally block.
CompletionRefetchInFinally(st) ==
    IF st = "fulfilled"
    THEN [toasts |-> <<"success">>, reconcile |-> TRUE, refetch |-> TRUE,
          saving |-> FALSE, returned |-> "resolved"]
    ELSE [toasts |-> <<"error">>, reconcile |-> FALSE, refetch |-> TRUE,
          saving |-> FALSE, returned |-> "resolved"]

\* Variant: the success toast sits in the finally block.
CompletionToastInFinally(st) ==
    IF st = "fulfilled"
    THEN [toasts |-> <<"success">>, reconcile |-> TRUE, refetch |-> TRUE,
          saving |-> FALSE, returned |-> "resolved"]
    ELSE [toasts |-> <<"error", "success">>, reconcile |-> FALSE, refetch |-> FALSE,
          saving |-> FALSE, returned |-> "resolved"]

\* Variant: try/finally without the catch block.
CompletionNoCatch(st) ==
    IF st = "fulfilled"
    THEN [toasts |-> <<"success">>, reconcile |-> TRUE, refetch |-> TRUE,
          saving |-> FALSE, returned |-> "resolved"]
    ELSE [toasts |-> <<>>, reconcile |-> FALSE, refetch |-> FALSE,
          saving |-> FALSE, returned |-> "rejected"]

\* What saveChanges does once the awaited Promise.all has settled: the rest of
\* the try block, or the catch block, then the finally block.
Completion(st) ==
    IF st = "fulfilled"
    THEN [toasts |-> <<"success">>, reconcile |-> TRUE, refetch |-> TRUE,
          saving |-> FALSE, returned |-> "resolved"]
    ELSE [toasts |-> <<"error">>, reconcile |-> FALSE, refetch |-> FALSE,
          saving |-> FALSE, returned |-> "resolved"]

\* Variant: the continuation puts the draft of its closure back.
DraftAfterSaveCaptured(dr, captured) == captured

\* The draft after the continuation of a save whose closure holds the draft
\* captured: saveChanges never calls setDraftSpecialDays.
DraftAfterSave(dr, captured) == dr

\* The continuation of save s of svs, whose Promise.all has settled as st.
Finish(s, svs, st) ==
    LET c == Completion(st)
    IN  /\ saves' = [svs EXCEPT ![s].done = TRUE, ![s].returned = c.returned]
        /\ draft' = DraftAfterSave(draft, svs[s].draft)
        /\ toasts' = toasts \o [i \in 1..Len(c.toasts) |-> [save |-> s, kind |-> c.toasts[i]]]
        /\ original' = IF c.reconcile THEN svs[s].draft ELSE original
        /\ fetch' = IF c.refetch THEN "requested" ELSE fetch
        /\ saving' = c.saving

\* saveChanges up to its await: setSaving(true) and the update calls.
StartSave ==
    LET s == Len(saves) + 1
        svs == Append(saves, [ids |-> changedIds, draft |-> draft,
                              original |-> original, toggles0 |-> nToggles,
                              done |-> FALSE, returned |-> "pending"])
        disp == dispatches \o NewDispatches(s, changedIds, draft)
        st == PromiseAll(s, disp)
    IN  /\ dispatches' = disp
        /\ IF st = "pending"
           THEN /\ saves' = svs
                /\ saving' = TRUE
                /\ UNCHANGED <<toasts, original, fetch, draft>>
           ELSE Finish(s, svs, st)
        /\ last' = LastRec("save", 0, "", <<>>, FALSE, 0, s)

\* A call of saveChanges: by the Save button, which is disabled while saving
\* or while nothing is changed, or directly when nothing is changed.
saveChanges ==
    /\ changedIds = {} \/ ~SaveDisabled
    /\ IF EarlyReturn(changedIds)
       THEN /\ last' = LastOp("saveNoop")
            /\ UNCHANGED <<saves, dispatches, toasts, original, fetch, saving, draft>>
       ELSE /\ Len(saves) < MaxSaves
            /\ StartSave
    /\ retry' = {}
    /\ UNCHANGED <<search, elsewhere>>
    /\ UNCHANGED <<server, items, nToggles, nFocus, nServer, touched>>

\* Variant: a failed call aborts the calls of the same save still in flight.
AfterSettleAbortSiblings(disp, k, outcome) ==
    [j \in 1..Len(disp) |->
        IF j = k THEN [disp[j] EXCEPT !.status = outcome]
        ELSE IF outcome = "fail" /\ disp[j].save = disp[k].save /\ disp[j].status = "pending"
             THEN [disp[j] EXCEPT !.status = "fail"]
             ELSE disp[j]]

\* The update calls once call k has settled: no call is cancelled, the calls of
\* one save are independent of each other.
AfterSettle(disp, k, outcome) == [disp EXCEPT ![k].status = outcome]

\* One updateProduct call settles; when that settles the Promise.all of a save
\* still awaiting it, the save's continuation runs in the same task.
Settle(k, outcome) ==
    LET d == dispatches[k]
        disp == AfterSettle(dispatches, k, outcome)
        st == PromiseAll(d.save, disp)
        completes == ~saves[d.save].done /\ st # "pending"
    IN  /\ d.status = "pending"
        /\ dispatches' = disp
        /\ IF completes
           THEN Finish(d.save, saves, st)
           ELSE UNCHANGED <<saves, toasts, original, fetch, saving, draft>>
        /\ last' = LastRec("settle", d.id, "", <<>>, FALSE,
                           IF completes THEN 1 ELSE 0, d.save)
        /\ retry' = IF outcome = "fail" /\ d.id \in changedIds
                    THEN retry \cup {k} ELSE retry
        /\ touched' = IF completes /\ st = "fulfilled"
                      THEN touched \ {id \in saves[d.save].ids :
                                         OrEmpty(draft, id) = OrEmpty(saves[d.save].draft, id)}
                      ELSE touched
        /\ UNCHANGED <<search, elsewhere>>
        /\ UNCHANGED <<items, nToggles, nFocus, nServer>>

\* The backend stores the update and answers 2xx.
DispatchSucceeds(k) ==
    /\ dispatches[k].id \in DOMAIN server
    /\ server' = [server EXCEPT ![dispatches[k].id] = Raw(dispatches[k].value)]
    /\ Settle(k, "ok")

\* The update is rejected (network error, validation error, product gone).
DispatchFails(k) ==
    /\ UNCHANGED server
    /\ Settle(k, "fail")

----------------------------------------------------------------------------

Next ==
    \/ \E id \in Ids : ServerRemove(id)
    \/ RefetchOnFocus
    \/ FetchReturnSeed
    \/ FetchReturnSame
    \/ \E id \in Ids, day \in ToggleDays : toggleDay(id, day)
    \/ saveChanges
    \/ \E k \in 1..Len(dispatches) : DispatchSucceeds(k)
    \/ \E k \in 1..Len(dispatches) : DispatchFails(k)

Spec == Init /\ [][Next]_vars

\* The page with toggleDay also callable outside the rows of the table.
NextDirect ==
    \/ Next
    \/ \E id \in Ids, day \in ToggleDays : toggleDayDirect(id, day)

SpecDirect == Init /\ [][NextDirect]_vars

\* The page left alone by the rest of the world: no product is deleted and no
\* background refetch runs, so every refetch after the first load is the one a
\* save asked for. The first product can be clicked a third time.
NextResave ==
    \/ FetchReturnSeed
    \/ FetchReturnSame
    \/ \E day \in ToggleDays : Click(1, day, MaxTogglesResave)
    \/ saveChanges
    \/ \E k \in 1..Len(dispatches) : DispatchSucceeds(k)
    \/ \E k \in 1..Len(dispatches) : DispatchFails(k)

SpecResave == Init /\ [][NextResave]_vars

\* A key typed into the search box.
setSearch(term) ==
    /\ search' = term
    /\ UNCHANGED <<server, fetch, items, draft, original, saving, saves,
                   dispatches, toasts, last, nToggles, nFocus, nServer, retry,
                   touched>>
    /\ UNCHANGED elsewhere

\* The page with its search box in use: no product is deleted and no
\* background refetch runs.
NextSearch ==
    \/ FetchReturnSeed
    \/ FetchReturnSame
    \/ \E term \in SearchTerms : setSearch(term)
    \/ \E id \in Ids, day \in ToggleDays : toggleDay(id, day)
    \/ saveChanges
    \/ \E k \in 1..Len(dispatches) : DispatchSucceeds(k)
    \/ \E k \in 1..Len(dispatches) : DispatchFails(k)

SpecSearch == Init /\ [][NextSearch]_vars

----------------------------------------------------------------------------
(* The product dialog (components/products/product-dialog.tsx). *)

MAX_IMAGES == 5

\* The numbers of images a product handed to the dialog may have.
ProductImageCounts == {0, 4, 7}

Min(a, b) == IF a < b THEN a ELSE b

\* The dialog is opened: for a product with n images (edit) the gallery is set
\* to its first MAX_IMAGES images, for no product (add, n = 0) it is reset.
openDialog(n) ==
    /\ ~dialogOpen
    /\ dialogOpen' = TRUE
    /\ galleryImages' = [i \in 1..Min(n, MAX_IMAGES) |-> nextImageId + i - 1]
    /\ nextImageId' = nextImageId + Min(n, MAX_IMAGES)
    /\ UNCHANGED <<readers, imageToasts, nSelections, nRemovals>>
    /\ UNCHANGED besideDialog

\* handleAddProductImages with nFiles files selected, in a render whose
\* gallery is gallery: the number of FileReaders started and the toasts.
AddImages(gallery, nFiles) ==
    LET availableSlots == MAX_IMAGES - Len(gallery)
    IN  IF availableSlots <= 0
        THEN [started |-> 0, toasts |-> <<"full">>]
        ELSE [started |-> Min(nFiles, availableSlots),
              toasts |-> IF nFiles > availableSlots THEN <<"only">> ELSE <<>>]

\* Files are selected in the file input, which is rendered while the gallery
\* has fewer than MAX_IMAGES images.
handleAddProductImages(nFiles) ==
    /\ dialogOpen
    /\ nSelections < MaxSelections
    /\ Len(galleryImages) < MAX_IMAGES
    /\ LET r == AddImages(galleryImages, nFiles)
       IN  /\ readers' = readers + r.started
           /\ imageToasts' = imageToasts \o r.toasts
    /\ nSelections' = nSelections + 1
    /\ UNCHANGED <<dialogOpen, galleryImages, nextImageId, nRemovals>>
    /\ UNCHANGED besideDialog

\* reader.onloadend of one of the files being read: the functional update
\* appends the image to the gallery of that moment.
readerLoadEnd ==
    /\ readers > 0
    /\ readers' = readers - 1
    /\ galleryImages' = Append(galleryImages, nextImageId)
    /\ nextImageId' = nextImageId + 1
    /\ UNCHANGED <<dialogOpen, imageToasts, nSelections, nRemovals>>
    /\ UNCHANGED besideDialog

handleRemoveImage(id) ==
    /\ dialogOpen
    /\ nRemovals < MaxRemovals
    /\ \E i \in 1..Len(galleryImages) : galleryImages[i] = id
    /\ galleryImages' = SelectSeq(galleryImages, LAMBDA img : img # id)
    /\ nRemovals' = nRemovals + 1
    /\ UNCHANGED <<dialogOpen, readers, imageToasts, nextImageId, nSelections>>
    /\ UNCHANGED besideDialog

NextDialog ==
    \/ \E n \in ProductImageCounts : openDialog(n)
    \/ \E nFiles \in 1..MaxFiles : handleAddProductImages(nFiles)
    \/ readerLoadEnd
    \/ \E id \in 1..(nextImageId - 1) : handleRemoveImage(id)

SpecDialog == Init /\ [][NextDialog]_vars

----------------------------------------------------------------------------
(* The orders page (OrdersPage), the shape of every paginated list page. *)

limit == 10

\* The page buttons rendered are those of the first MaxPageButtons pages.
MaxPageButtons == 5

Max(a, b) == IF a > b THEN a ELSE b

\* The number of pages the backend reports for a status filter.
PagesOf(total) == (total + limit - 1) \div limit

\* params, the changing part of the query key.
Params(p, s) == [page |-> p, status |-> s]

\* pages of the data useQuery returns in a render with query key key, when
\* the render before it returned shown: the cached answer of the key, and
\* the previous data (placeholderData) while the key has none.
DataPages(key, shown) ==
    IF key \in DOMAIN ordersCache THEN ordersCache[key] ELSE shown

\* The renders after page and status have been set to p and s by one event:
\* the first has the values the event set; when the status changed, the reset
\* effect of that render calls setPage(1) and, if the page was not 1, a
\* second render follows.  Each render with a new query key makes useQuery
\* fetch it.
RendersAfter(p, s) ==
    LET first == Params(p, s)
        reset == s # status /\ p # 1
        final == IF reset THEN Params(1, s) ELSE first
        keys == ({first} \cup {final}) \ {Params(page, status)}
    IN  [page |-> final.page,
         pages |-> DataPages(final, DataPages(first, pages)),
         fetches |-> keys]

\* An event of the page sets page and status to p and s: the state once its
\* renders and their effects have run.
EffectsAfter(p, s) ==
    LET r == RendersAfter(p, s)
    IN  /\ page' = r.page
        /\ status' = s
        /\ pages' = r.pages
        /\ ordersRequests' = ordersRequests \cup r.fetches
        /\ ordersFetched' = r.fetches
        /\ UNCHANGED <<searchTerm, ordersCache, ordersTotal, nDeletes>>
        /\ UNCHANGED besideOrders

\* The previous-page button, disabled on page 1.
previousPage ==
    /\ page # 1
    /\ EffectsAfter(Max(1, page - 1), status)

\* The next-page button, disabled on the last page.
nextPage ==
    /\ ~(page >= pages)
    /\ EffectsAfter(Min(pages, page + 1), status)

\* One of the numbered page buttons.
goToPage(p) ==
    /\ p \in 1..Min(MaxPageButtons, pages)
    /\ p # page
    /\ EffectsAfter(p, status)

\* A status is picked in the filter panel.
setStatus(s) ==
    /\ s # status
    /\ EffectsAfter(page, s)

\* clearFilters: the filters and the page are set in one batch.
clearFilters ==
    /\ EffectsAfter(1, "")

\* A key typed into the search box, which filters the rows of the page held.
setSearchTerm(q) ==
    /\ q # searchTerm
    /\ searchTerm' = q
    /\ ordersFetched' = {}
    /\ UNCHANGED <<page, status, pages, ordersCache, ordersRequests,
                   ordersTotal, nDeletes>>
    /\ UNCHANGED besideOrders

\* deleteOrderMutation succeeds for an order, pending or not: the backend has
\* one order less and onSuccess invalidates the queries, which refetches the
\* one on screen.
deleteOrder(pending) ==
    /\ nDeletes < MaxDeletes
    /\ ordersTotal[""] > 0
    /\ pending => ordersTotal["Pending"] > 0
    /\ ordersTotal' = [s \in Statuses |->
                          IF s = "" \/ pending THEN ordersTotal[s] - 1
                                               ELSE ordersTotal[s]]
    /\ ordersRequests' = ordersRequests \cup {Params(page, status)}
    /\ ordersFetched' = {Params(page, status)}
    /\ nDeletes' = nDeletes + 1
    /\ UNCHANGED <<page, status, searchTerm, pages, ordersCache>>
    /\ UNCHANGED besideOrders

\* The answer the backend gives for a query key.
PagesAnswered(key) == PagesOf(ordersTotal[key.status])

\* getOrders of a query key answers: the answer is cached, and rendered when
\* the key is the one on screen.
getOrdersReturn(key) ==
    /\ key \in ordersRequests
    /\ ordersRequests' = ordersRequests \ {key}
    /\ ordersCache' = [k \in DOMAIN ordersCache \cup {key} |->
                          IF k = key THEN PagesAnswered(key) ELSE ordersCache[k]]
    /\ pages' = IF key = Params(page, status) THEN PagesAnswered(key) ELSE pages
    /\ ordersFetched' = {}
    /\ UNCHANGED <<page, status, searchTerm, ordersTotal, nDeletes>>
    /\ UNCHANGED besideOrders

NextOrders ==
    \/ previousPage
    \/ nextPage
    \/ \E p \in 1..MaxPageButtons : goToPage(p)
    \/ \E s \in Statuses : setStatus(s)
    \/ clearFilters
    \/ \E q \in OrderSearchTerms : setSearchTerm(q)
    \/ \E pending \in BOOLEAN : deleteOrder(pending)
    \/ \E key \in ordersRequests : getOrdersReturn(key)

SpecOrders == Init /\ [][NextOrders]_vars

----------------------------------------------------------------------------
(* useDebouncedValue (products and customers pages). *)

\* The cleanup of the effect keeps every timer but the one the effect set.
CleanupKeepsTimer(ts, id) == ts

\* The cleanup of the effect run id: clearTimeout of the timer it set.
Cleanup(ts, id) == {t \in ts : t.id # id}

\* The search box changes value: the render that follows runs the cleanup of
\* the last effect and then the effect, which sets a timer for the new value.
setValue(v) ==
    /\ nInputs < MaxInputs
    /\ v # value
    /\ value' = v
    /\ timers' = Cleanup(timers, nInputs)
                    \cup {[id |-> nInputs + 1, value |-> v, left |-> delay]}
    /\ sinceChange' = 0
    /\ nInputs' = nInputs + 1
    /\ UNCHANGED <<debounced, emitted>>
    /\ UNCHANGED besideDebounce

\* TickMs milliseconds pass; a timer that is due fires before more time passes.
Tick ==
    /\ \A t \in timers : t.left > 0
    /\ timers # {} \/ sinceChange < delay
    /\ timers' = {[t EXCEPT !.left = Max(0, t.left - TickMs)] : t \in timers}
    /\ sinceChange' = Min(delay, sinceChange + TickMs)
    /\ UNCHANGED <<value, debounced, emitted, nInputs>>
    /\ UNCHANGED besideDebounce

\* A timer that is due fires: setDebounced with the value of its effect.  The
\* render that follows has the same value and delay, so no effect runs.
timerFires(t) ==
    /\ t \in timers
    /\ t.left = 0
    /\ debounced' = t.value
    /\ emitted' = IF t.value # debounced THEN Append(emitted, t.value) ELSE emitted
    /\ timers' = timers \ {t}
    /\ UNCHANGED <<value, sinceChange, nInputs>>
    /\ UNCHANGED besideDebounce

TimerFires == \E t \in timers : timerFires(t)

NextDebounce ==
    \/ \E v \in InputValues : setValue(v)
    \/ Tick
    \/ TimerFires

SpecDebounce == Init /\ [][NextDebounce]_vars

\* Time passes, and a timer that is due does fire.
SpecDebounceFair ==
    /\ Init
    /\ [][NextDebounce]_vars
    /\ WF_vars(Tick)
    /\ WF_vars(TimerFires)

----------------------------------------------------------------------------

\* The records of the saveChanges runs that are over are dropped, so that the
\* Save button can be clicked any number of times.
Forget ==
    /\ saves # <<>>
    /\ \A s \in 1..Len(saves) : saves[s].done
    /\ \A k \in 1..Len(dispatches) : dispatches[k].status # "pending"
    /\ saves' = <<>>
    /\ dispatches' = <<>>
    /\ toasts' = <<>>
    /\ last' = LastOp("forget")
    /\ retry' = {}
    /\ UNCHANGED <<search, elsewhere>>
    /\ UNCHANGED <<server, fetch, items, draft, original, saving, nToggles,
                   nFocus, nServer, touched>>

\* An update call of product id succeeds.
SucceedsFor(id) ==
    \E k \in 1..Len(dispatches) : dispatches[k].id = id /\ DispatchSucceeds(k)

\* The page with a user who clicks Save again after every failed save: no
\* product is deleted, no background refetch runs and only the first
\* NumRetryIds products are clicked. The page does not stop while a
\* getProducts or updateProduct call is unanswered or Save can be clicked, and
\* the updates of no product fail for ever.
NextRetry ==
    \/ FetchReturnSeed
    \/ FetchReturnSame
    \/ \E id \in 1..NumRetryIds, day \in ToggleDays : toggleDay(id, day)
    \/ saveChanges
    \/ \E k \in 1..Len(dispatches) : DispatchSucceeds(k)
    \/ \E k \in 1..Len(dispatches) : DispatchFails(k)
    \/ Forget

\* An answer of the backend, or the dropping of old records.
AnswerStep ==
    \/ FetchReturnSeed
    \/ FetchReturnSame
    \/ \E k \in 1..Len(dispatches) : DispatchSucceeds(k) \/ DispatchFails(k)
    \/ Forget

\* A click on Save would start a run of saveChanges.
SaveEnabled == ~SaveDisabled /\ Len(saves) < MaxSaves

\* Weak fairness of the click on Save, with its enabling condition written out:
\* Save is not left enabled for ever without being clicked.
SaveClickedAgain == []<>(~SaveEnabled) \/ []<><<saveChanges>>_vars

SpecRetry ==
    /\ Init
    /\ [][NextRetry]_vars
    /\ WF_vars(AnswerStep)
    /\ SaveClickedAgain
    /\ \A id \in 1..NumRetryIds : SF_vars(SucceedsFor(id))

----------------------------------------------------------------------------
(* Vocabulary of the properties. *)

\* The update calls of save s.
DispOf(s) == {k \in 1..Len(dispatches) : dispatches[k].save = s}

\* The toasts of save s.
ToastsOf(s) == {i \in 1..Len(toasts) : toasts[i].save = s}

\* The continuation of save s runs in this step.
Completes(s) == ~saves[s].done /\ saves'[s].done

\* The last step ran the continuation of save last.save.
JustCompleted == last.op = "settle" /\ last.n = 1

\* The update calls issued by this step.
NewCalls == (Len(dispatches) + 1)..Len(dispatches')

Dirty(id) == ~arraysEqual(OrEmpty(original, id), OrEmpty(draft, id))

Occurrences(s, x) == Cardinality({i \in 1..Len(s) : s[i] = x})

----------------------------------------------------------------------------
(* Properties of saveChanges. *)

\* C1: when a save completes with the maps as they were when it started, an
\* unchanged product keeps its draft and original, a changed product whose
\* update succeeded has original equal to draft, and a changed product whose
\* update failed keeps its draft and original.
C1_PerItemReconciliation ==
    [][\A s \in 1..Len(saves) :
          (Completes(s) /\ draft = saves[s].draft /\ original = saves[s].original)
          => \A id \in DOMAIN items :
                /\ id \notin saves[s].ids
                   => /\ OrEmpty(draft', id) = OrEmpty(draft, id)
                      /\ OrEmpty(original', id) = OrEmpty(original, id)
                /\ \A k \in DispOf(s) :
                      dispatches[k].id = id
                      => /\ dispatches'[k].status = "ok"
                            => /\ OrEmpty(draft', id) = OrEmpty(draft, id)
                               /\ arraysEqual(OrEmpty(original', id), OrEmpty(draft', id))
                         /\ dispatches'[k].status = "fail"
                            => /\ OrEmpty(draft', id) = OrEmpty(draft, id)
                               /\ OrEmpty(original', id) = OrEmpty(original, id)]_vars

\* C2: right after a save completes whose updates all succeeded and during
\* which no toggle happened, the save has shown the success toast, no product
\* it sent is changed, and changedIds is empty.
C2_AllSucceededClean ==
    (/\ JustCompleted
     /\ \A k \in DispOf(last.save) : dispatches[k].status = "ok"
     /\ nToggles = saves[last.save].toggles0)
    => /\ \E i \in ToastsOf(last.save) : toasts[i].kind = "success"
       /\ \A id \in saves[last.save].ids : ~Dirty(id)
       /\ changedIds = {}

\* C3: a failing update changes neither the draft nor the original of its
\* product and leaves a changed product changed; and the next saveChanges call,
\* with no toggle of the product and no reseed in between, sends the product
\* again with the same draft value.
C3_FailedIsRetried ==
    [][/\ \A k \in 1..Len(dispatches) :
             (dispatches[k].status = "pending" /\ dispatches'[k].status = "fail")
             => LET id == dispatches[k].id
                IN  /\ OrEmpty(draft', id) = OrEmpty(draft, id)
                    /\ OrEmpty(original', id) = OrEmpty(original, id)
                    /\ id \in changedIds => id \in changedIds'
       /\ saveChanges
          => \A k \in retry :
                \E j \in NewCalls :
                   /\ dispatches'[j].id = dispatches[k].id
                   /\ dispatches'[j].value = OrEmpty(draft, dispatches[k].id)]_vars

\* C4: when a save completes with a failed update, no toggle having happened
\* since it started, every product whose update has succeeded is unchanged;
\* and a saveChanges call that follows a save with a failed update, with no
\* toggle in between, sends no product whose update succeeded in that save.
C4_SucceededNotResent ==
    [][/\ \A s \in 1..Len(saves) :
             (/\ Completes(s)
              /\ nToggles = saves[s].toggles0
              /\ draft = saves[s].draft
              /\ \E k \in DispOf(s) : dispatches'[k].status = "fail")
             => \A k \in DispOf(s) :
                   dispatches'[k].status = "ok" => dispatches[k].id \notin changedIds'
       /\ (/\ saveChanges
           /\ saves # <<>>
           /\ saves[Len(saves)].done
           /\ nToggles = saves[Len(saves)].toggles0
           /\ \E k \in DispOf(Len(saves)) : dispatches[k].status = "fail")
          => \A j \in NewCalls :
                ~\E k \in DispOf(Len(saves)) :
                    /\ dispatches[k].status = "ok"
                    /\ dispatches[k].id = dispatches'[j].id]_vars

\* C5: a saveChanges call with no changed id issues no update call, shows no
\* toast, starts no save and leaves draft, original and saving as they were.
C5_EmptySaveIsNoop ==
    [][(saveChanges /\ changedIds = {})
       => UNCHANGED <<dispatches, toasts, saves, draft, original, saving, fetch>>]_vars

C5_Witness == last.op = "saveNoop" /\ items # EmptyMap /\ nToggles > 0

\* C6: update calls are issued only by a saveChanges call, which issues exactly
\* one call for every id changed at that moment, carrying that id's draft of
\* that moment, and none for an unchanged id.
C6_OneCallPerChangedId ==
    [][/\ Len(dispatches') >= Len(dispatches)
       /\ \A k \in 1..Len(dispatches) :
             /\ dispatches'[k].id = dispatches[k].id
             /\ dispatches'[k].value = dispatches[k].value
             /\ dispatches'[k].save = dispatches[k].save
       /\ NewCalls # {} => saveChanges
       /\ saveChanges
          => \A id \in Ids :
                LET calls == {j \in NewCalls : dispatches'[j].id = id}
                IN  /\ Cardinality(calls) = IF id \in changedIds THEN 1 ELSE 0
                    /\ \A j \in calls :
                          /\ dispatches'[j].value = OrEmpty(draft, id)
                          /\ dispatches'[j].status = "pending"]_vars

C6_Witness ==
    /\ last.op = "save"
    /\ Cardinality(DispOf(last.save)) = 2
    /\ \E id \in DOMAIN items : id \notin saves[last.save].ids

\* C7: a save shows no toast while its Promise.all is awaited and exactly one
\* once it has completed: the success toast if every update of it succeeded,
\* the error toast otherwise.
C7_OneToastPerSave ==
    \A s \in 1..Len(saves) :
       /\ ~saves[s].done => ToastsOf(s) = {}
       /\ saves[s].done
          => /\ Cardinality(ToastsOf(s)) = 1
             /\ \A i \in ToastsOf(s) :
                   /\ toasts[i].kind \in {"success", "error"}
                   /\ toasts[i].kind = "success"
                      <=> \A k \in DispOf(s) : dispatches[k].status = "ok"

C7_Witness ==
    \E s \in 1..Len(saves) :
       /\ saves[s].done
       /\ Cardinality({k \in DispOf(s) : dispatches[k].status = "fail"}) = 2

\* C8: saveChanges never returns a rejected promise: a completed save has
\* resolved and has reported success or failure, and the step that completes
\* it leaves saving false.
C8_NeverThrows ==
    /\ \A s \in 1..Len(saves) :
          /\ saves[s].returned \in {"pending", "resolved"}
          /\ saves[s].done <=> saves[s].returned = "resolved"
          /\ saves[s].done
             => \E i \in ToastsOf(s) : toasts[i].kind \in {"success", "error"}
    /\ JustCompleted => saves[last.save].done /\ ~saving

C8_Witness ==
    /\ JustCompleted
    /\ \E k \in DispOf(last.save) : dispatches[k].status = "fail"
    /\ \E k \in DispOf(last.save) : dispatches[k].status = "ok"

----------------------------------------------------------------------------
(* Properties of the seed effect and of toggleDay. *)

\* C9: after the seed effect no id is changed; and when it runs twice in a row
\* on the same item list, draft and original after the second run are those
\* after the first.
C9_SeedIdempotent ==
    [][FetchReturnSeed
       => /\ changedIds' = {}
          /\ (last.op = "seed" /\ server = items)
             => draft' = draft /\ original' = original]_vars

C9_Witness ==
    /\ last.op = "seed"
    /\ last.n = 2
    /\ \E id \in DOMAIN items : items[id].has /\ Len(items[id].days) > Len(draft[id])

\* C10 as stated: after toggleDay(id, t) twice in a row, the draft of id holds
\* the same set of days as before the first toggle, and id is changed exactly
\* if it was changed before the first toggle.
C10_ToggleSymmetry ==
    (last.op = "toggle" /\ last.n = 2)
    => /\ ToSet(OrEmpty(draft, last.id)) = ToSet(last.before)
       /\ last.id \in changedIds <=> last.wasDirty

\* C10 as amended: after toggleDay(id, t) twice in a row, the draft of id holds
\* the same set of days as before the first toggle; and when t occurred at most
\* once in the draft of id before the first toggle, id is changed exactly if it
\* was changed before the first toggle.
C10_ToggleSymmetryNoRepeat ==
    (last.op = "toggle" /\ last.n = 2)
    => /\ ToSet(OrEmpty(draft, last.id)) = ToSet(last.before)
       /\ Occurrences(last.before, last.day) <= 1
          => (last.id \in changedIds <=> last.wasDirty)

C10_Witness ==
    /\ last.op = "toggle"
    /\ last.n = 2
    /\ Occurrences(last.before, last.day) = 1
    /\ Len(last.before) = 2
    /\ OrEmpty(draft, last.id) # last.before

----------------------------------------------------------------------------
(* Properties of the diff and of the seed. *)

\* The day tokens of the page.
Vocabulary == {"mon", "tue", "wed", "thu", "fri"}

\* Every token that occurs in the model.
Tokens == Vocabulary \cup {"sat"}

\* The fetched days of a product without the tokens that are no day.
Normalized(raw) ==
    SelectSeq(IF raw.has THEN raw.days ELSE <<>>, LAMBDA d : d \in Vocabulary)

\* C11 as stated: a loaded id is in changedIds exactly when its draft and its
\* original hold different sets of days.
C11_DirtyIffSetsDiffer ==
    \A id \in DOMAIN items :
       id \in changedIds
       <=> ToSet(OrEmpty(original, id)) # ToSet(OrEmpty(draft, id))

\* C11 as amended: a loaded id is in changedIds exactly when some day occurs a
\* different number of times in its draft and in its original; the order of
\* the days never matters.
C11_DirtyIffBagsDiffer ==
    \A id \in DOMAIN items :
       id \in changedIds
       <=> \E d \in Tokens :
              Occurrences(OrEmpty(original, id), d) # Occurrences(OrEmpty(draft, id), d)

C11_Witness ==
    \E id \in DOMAIN items :
       /\ Len(OrEmpty(draft, id)) = 2
       /\ OrEmpty(draft, id) # OrEmpty(original, id)
       /\ ToSet(OrEmpty(draft, id)) = ToSet(OrEmpty(original, id))
       /\ id \notin changedIds

\* C12: in every state whose last operation is the seed effect, draft and
\* original are the same map, it holds exactly the loaded ids, each with its
\* fetched days without the tokens that are no day, and no id is changed.
C12_SeedIsHardReset ==
    last.op = "seed"
    => /\ draft = original
       /\ DOMAIN draft = DOMAIN items
       /\ \A id \in DOMAIN items : draft[id] = Normalized(items[id])
       /\ changedIds = {}

C12_Witness ==
    /\ last.op = "seed"
    /\ items # EmptyMap
    /\ \E s \in 1..Len(saves) :
          /\ ~saves[s].done
          /\ \E id \in DOMAIN items : OrEmpty(saves[s].draft, id) # draft[id]

\* C14: the seed keeps of the fetched tokens of a product exactly those of the
\* vocabulary mon..fri, and at all times every token in the draft, in the
\* original and in the value of every update call is of that vocabulary.
C14_TokensInVocabulary ==
    /\ \A id \in DOMAIN draft : ToSet(draft[id]) \subseteq Vocabulary
    /\ \A id \in DOMAIN original : ToSet(original[id]) \subseteq Vocabulary
    /\ \A k \in 1..Len(dispatches) : ToSet(dispatches[k].value) \subseteq Vocabulary
    /\ last.op = "seed"
       => \A id \in DOMAIN items :
             /\ ToSet(draft[id]) = ToSet(items[id].days) \cap Vocabulary
             /\ ToSet(original[id]) = ToSet(items[id].days) \cap Vocabulary

\* An update call was sent for a product fetched with a token that is no day.
C14_Witness ==
    \E k \in 1..Len(dispatches) :
       /\ dispatches[k].id \in DOMAIN items
       /\ ~(ToSet(items[dispatches[k].id].days) \subseteq Vocabulary)
       /\ dispatches[k].value # <<>>

----------------------------------------------------------------------------
(* Properties of toggleDay. *)

\* C13: toggleDay for an id without an entry in the draft leaves
\* draft and original exactly as they were.
C13_UnseededToggleIsNoop ==
    [][\A id \in Ids, day \in ToggleDays :
          toggleDayDirect(id, day) => draft' = draft /\ original' = original]_vars

\* C15: a click on a day of product id leaves the original and every draft
\* entry of another product as they were, and adds or removes no draft entry
\* of another product; the original changes only in a seed or in the
\* continuation of a save whose updates all succeeded.
C15_ToggleChangesOnlyItsEntry ==
    [][/\ \A id \in Ids, day \in ToggleDays :
             toggleDay(id, day)
             => /\ original' = original
                /\ DOMAIN draft' \ {id} = DOMAIN draft \ {id}
                /\ \A j \in DOMAIN draft \ {id} : draft'[j] = draft[j]
       /\ original' # original
          => \/ FetchReturnSeed
             \/ \E s \in 1..Len(saves) :
                   Completes(s) /\ PromiseAll(s, dispatches') = "fulfilled"]_vars

\* A click changed a draft entry while another product had days in its draft
\* and the original held days too.
C15_Witness ==
    /\ last.op = "toggle"
    /\ last.id \in DOMAIN draft
    /\ draft[last.id] # last.before
    /\ \E j \in DOMAIN draft \ {last.id} : draft[j] # <<>> /\ original[j] # <<>>

----------------------------------------------------------------------------
(* Properties of the steps of a save. *)

\* C16: no step of a save (the call of saveChanges, the success or the failure
\* of one of its update calls, with the continuation when it runs) changes the
\* draft: a day toggled while the save was in flight is still in the draft
\* when the save completes.
C16_SaveNeverWritesDraft ==
    [][(\/ saveChanges
        \/ \E k \in 1..Len(dispatches) : DispatchSucceeds(k) \/ DispatchFails(k))
       => draft' = draft]_vars

\* A save completed after a click made while it was in flight, and the draft
\* is not the one the save started with.
C16_Witness ==
    /\ JustCompleted
    /\ nToggles > saves[last.save].toggles0
    /\ draft # saves[last.save].draft
    /\ DOMAIN draft = DOMAIN saves[last.save].draft

\* C17: while an update call of a save is still in flight, the save has shown
\* no toast, its continuation has not run and saving is still true.
C17_ReportsAfterAllSettled ==
    \A s \in 1..Len(saves) :
       (\E k \in DispOf(s) : dispatches[k].status = "pending")
       => /\ ToastsOf(s) = {}
          /\ ~saves[s].done
          /\ saving

\* C18: while an update call is in flight the Save button is disabled, the
\* calls in flight all belong to one save, and no two of them are for the
\* same product.
C18_SavesNeverOverlap ==
    LET pending == {k \in 1..Len(dispatches) : dispatches[k].status = "pending"}
    IN  /\ pending # {} => SaveDisabled
        /\ \A k1, k2 \in pending :
              /\ dispatches[k1].save = dispatches[k2].save
              /\ dispatches[k1].id = dispatches[k2].id => k1 = k2

\* C19: every product changed when a save starts has exactly one update call
\* of that save, issued in the step that starts it; the failure of a call
\* changes no other call; and after it a call still in flight can fail, or
\* succeed when the backend has the product.
C19_FailureLeavesSiblings ==
    [][/\ \A s \in 1..Len(saves') :
             /\ {dispatches'[k].id : k \in {j \in 1..Len(dispatches') :
                                               dispatches'[j].save = s}}
                = saves'[s].ids
             /\ \A id \in saves'[s].ids :
                   Cardinality({k \in 1..Len(dispatches') :
                                   dispatches'[k].save = s /\ dispatches'[k].id = id}) = 1
       /\ \A k \in 1..Len(dispatches) :
             DispatchFails(k)
             => /\ Len(dispatches') = Len(dispatches)
                /\ \A j \in 1..Len(dispatches) \ {k} :
                      /\ dispatches'[j] = dispatches[j]
                      /\ dispatches[j].status = "pending"
                         => /\ (ENABLED DispatchFails(j))'
                            /\ dispatches[j].id \in DOMAIN server
                               => (ENABLED DispatchSucceeds(j))']_vars

\* An update call succeeded after another call of its save had failed and the
\* save had shown its error toast.
C19_Witness ==
    /\ last.op = "settle"
    /\ last.n = 0
    /\ saves[last.save].done
    /\ \E k, j \in DispOf(last.save) :
          /\ dispatches[k].id = last.id
          /\ dispatches[k].status = "ok"
          /\ dispatches[j].status = "fail"
    /\ \E i \in ToastsOf(last.save) : toasts[i].kind = "error"

----------------------------------------------------------------------------
(* Properties of the key sets. *)

\* C20: right after a seed the draft and the original have exactly the ids of
\* the fetched products as keys, and at all times the draft has an entry for
\* every displayed product and the same keys as the original.
C20_KeySetsFollowItems ==
    /\ last.op = "seed"
       => DOMAIN draft = DOMAIN items /\ DOMAIN original = DOMAIN items
    /\ DOMAIN items \subseteq DOMAIN draft
    /\ DOMAIN original = DOMAIN draft

----------------------------------------------------------------------------
(* Properties of the refetch after a save. *)

----------------------------------------------------------------------------
(* Properties of the changed ids over time. *)

\* C22: every changed id has been toggled since the last seed and since the
\* start of the last successful save that sent it.
C22_NoPhantomChange == changedIds \subseteq touched

----------------------------------------------------------------------------
(* Properties of the original map. *)

\* C24: every entry of the original is the normalized days of its product in
\* the collection last fetched, or days that an update call of that product
\* which succeeded has sent; and when a save completes with all updates
\* succeeded, a product it sent whose draft no longer has the days sent is
\* changed.
C24_OriginalKnownToServer ==
    /\ \A id \in DOMAIN original :
          \/ id \in DOMAIN items /\ original[id] = Normalized(items[id])
          \/ \E k \in 1..Len(dispatches) :
                /\ dispatches[k].id = id
                /\ dispatches[k].status = "ok"
                /\ dispatches[k].value = original[id]
    /\ (JustCompleted /\ PromiseAll(last.save, dispatches) = "fulfilled")
       => \A id \in saves[last.save].ids :
             ~arraysEqual(OrEmpty(draft, id), OrEmpty(saves[last.save].draft, id))
             => id \in changedIds

----------------------------------------------------------------------------
(* Properties of repeated saves. *)

\* C25: when Save is clicked again after every failed save and the updates of
\* no product fail for ever, then from any moment on the set of changed ids
\* is empty at some later moment (the clicks on days are finitely many).
C25_RetriesConverge == []<>(changedIds = {})

----------------------------------------------------------------------------
(* Properties of the search box. *)

\* C26: typing into the search box leaves the draft, the original and the
\* changed ids as they were, and a run of saveChanges sends an update for
\* every changed product of the loaded collection, whether its row is
\* displayed or not.
C26_SearchOnlyFiltersRows ==
    [][/\ \A term \in SearchTerms :
             setSearch(term)
             => draft' = draft /\ original' = original /\ changedIds' = changedIds
       /\ (saveChanges /\ Len(saves') > Len(saves))
          => {dispatches'[k].id : k \in NewCalls}
             = {id \in DOMAIN items : Dirty(id)}]_vars

\* A save was started with a changed product whose row the search hides.
C26_Witness ==
    /\ last.op = "save"
    /\ \E id \in saves[last.save].ids : id \notin filteredItems
    /\ filteredItems # {}

----------------------------------------------------------------------------
(* Properties of the product dialog. *)

\* C27: the gallery of the product dialog never holds more than MAX_IMAGES
\* images.
C27_GalleryAtMostMaxImages == Len(galleryImages) <= MAX_IMAGES

\* C28: on the paginated list pages the current page is at least 1 and at
\* most max(1, pages) in every reachable state, whatever the clicks on the
\* pagination, the filter changes, the row deletions and the refetch results,
\* a refetch that reports fewer pages than before included.
C28_PageWithinPages == 1 <= page /\ page <= Max(1, pages)

\* C29: whenever a server-side filter of a list page changes, the page number
\* is reset to 1 and no fetch is issued that combines the new filter value
\* with a page number other than 1; a change of the client-side search term of
\* the orders page leaves the page number unchanged.
C29_FilterChangeFetchesPageOne ==
    [][/\ (\E s \in Statuses : setStatus(s)) =>
              /\ page' = 1
              /\ \A key \in ordersFetched' : key.page = 1
       /\ (\E q \in OrderSearchTerms : setSearchTerm(q)) => page' = page]_vars

\* C30: the debounced value changes only to an input value that has stayed
\* unchanged for the whole delay; a change of the input before the delay has
\* elapsed cancels the pending timer, so no intermediate value of a burst is
\* emitted; and once the input stops changing, the debounced value eventually
\* equals the last input.
C30_DebounceFollowsStableInput ==
    /\ [][/\ debounced' # debounced =>
                /\ debounced' = value
                /\ sinceChange >= delay
          /\ value' # value =>
                /\ sinceChange < delay => \A t \in timers' : t \notin timers
                /\ \A t \in timers' : t.value = value' /\ t.left = delay]_vars
    /\ \A v \in InputValues : <>[](value = v) => <>[](debounced = v)

\* A burst of two changes has been typed and only its last value was emitted.
C30_Witness ==
    /\ nInputs = 2
    /\ value = "ca"
    /\ emitted = <<"ca">>
    /\ debounced = "ca"

====
